---------------------------- MODULE Spec2Model ----------------------------
(***************************************************************************)
(* Times Tables Tester: the command-line front end (times_tables.py), the  *)
(* graphical front end (times_tables_gui.py) and the statistics file       *)
(* results.json they share.                                                *)
(*                                                                         *)
(* Python strings are sequences of one-character strings.  Times are       *)
(* integers in milliseconds (60 s = 60000).  The statistics file is a      *)
(* sequence of JSON tokens.                                                *)
(***************************************************************************)
EXTENDS Integers, Sequences, FiniteSets, TLC

(***************************************************************************)
(* Program constants.                                                      *)
(***************************************************************************)
\* range(13): the fixed multipliers 0..12
NumFixed == 13
\* randint(0, 12): the largest extra multiplier
MaxMultiplier == 12
\* range(7) / random.sample(..., 7): the number of extra problems
NumExtra == 7
\* correct_answers == 20
GoalCorrect == 20
\* elapsed <= 60, in milliseconds
GoalMillis == 60000
\* round(..., 2): hundredths of a second, in milliseconds
Hundredth == 10
\* 2 <= table <= 12
MinTable == 2
MaxTable == 12

(***************************************************************************)
(* Bounds of the model.                                                    *)
(***************************************************************************)
\* sessions started over the life of the statistics file
MaxSessions == 2
\* random streams explored: raw draw k is seed + (k-1)*stride
MaxSeed == 13
MaxStride == 2
\* tables handed to generate_problems directly: -MaxGenTable .. MaxTable + MaxGenTable
MaxGenTable == 1
\* entries of a store handed to save_results directly
MaxStoreLen == 2
\* the random stream a session draws from
SessSeed == 0
SessStride == 5

(***************************************************************************)
(* Python str and int.                                                     *)
(***************************************************************************)
Digits == <<"0", "1", "2", "3", "4", "5", "6", "7", "8", "9">>

DigitSet == {Digits[i] : i \in 1..10}

Whitespace == {" ", "\t", "\n"}

DigitVal(c) == (CHOOSE i \in 1..10 : Digits[i] = c) - 1

RECURSIVE StrNat(_)
StrNat(n) == IF n < 10 THEN <<Digits[n + 1]>>
             ELSE StrNat(n \div 10) \o <<Digits[(n % 10) + 1]>>

\* str(n) of an int
Str(n) == IF n < 0 THEN <<"-">> \o StrNat(-n) ELSE StrNat(n)

RECURSIVE LStrip(_)
LStrip(s) == IF s # <<>> /\ Head(s) \in Whitespace THEN LStrip(Tail(s)) ELSE s

RECURSIVE RStrip(_)
RStrip(s) == IF s # <<>> /\ s[Len(s)] \in Whitespace
             THEN RStrip(SubSeq(s, 1, Len(s) - 1)) ELSE s

\* digits with single underscores between them, as int() accepts
RECURSIVE DigitsOK(_, _)
DigitsOK(s, afterDigit) ==
    IF s = <<>> THEN afterDigit
    ELSE IF Head(s) \in DigitSet THEN DigitsOK(Tail(s), TRUE)
    ELSE IF Head(s) = "_" THEN afterDigit /\ Tail(s) # <<>>
                               /\ Head(Tail(s)) \in DigitSet
                               /\ DigitsOK(Tail(s), FALSE)
    ELSE FALSE

RECURSIVE DigitsVal(_, _)
DigitsVal(s, acc) ==
    IF s = <<>> THEN acc
    ELSE IF Head(s) = "_" THEN DigitsVal(Tail(s), acc)
    ELSE DigitsVal(Tail(s), 10 * acc + DigitVal(Head(s)))

\* int(s) of a str: ok = FALSE stands for ValueError
ParseInt(s) ==
    LET t == RStrip(LStrip(s))
        signed == t # <<>> /\ Head(t) \in {"+", "-"}
        body == IF signed THEN Tail(t) ELSE t
    IN IF DigitsOK(body, FALSE)
       THEN [ok |-> TRUE,
             val |-> IF signed /\ Head(t) = "-" THEN -DigitsVal(body, 0)
                     ELSE DigitsVal(body, 0)]
       ELSE [ok |-> FALSE, val |-> 0]

(***************************************************************************)
(* The random source: a stream of raw draws.                               *)
(***************************************************************************)
Raw(rng, k) == rng.seed + (k - 1) * rng.stride

\* random._randbelow(n) on draw k
RandBelow(rng, k, n) == Raw(rng, k) % n

\* random.randint(a, b) on draw k
RandInt(rng, k, a, b) == a + RandBelow(rng, k, b - a + 1)

Swap(x, i, j) == [x EXCEPT ![i] = x[j], ![j] = x[i]]

\* random.shuffle(x): for i = len-1 down to 1 (0-based): j = randbelow(i+1); swap.
\* i is 0-based; draw k is the next unused draw of the stream.
RECURSIVE ShuffleFrom(_, _, _, _)
ShuffleFrom(x, rng, k, i) ==
    IF i < 1 THEN x
    ELSE ShuffleFrom(Swap(x, i + 1, RandBelow(rng, k, i + 1) + 1), rng, k + 1, i - 1)

Shuffle(x, rng, k) == ShuffleFrom(x, rng, k, Len(x) - 1)

\* random.sample(population, n) for a population of at most 85 elements (the
\* pool branch): result[i] = pool[j]; pool[j] = pool[len - i - 1]
RECURSIVE SampleFrom(_, _, _, _, _)
SampleFrom(pool, rng, k, i, n) ==
    IF i >= n THEN <<>>
    ELSE LET j == RandBelow(rng, k, Len(pool) - i) + 1
         IN <<pool[j]>> \o SampleFrom([pool EXCEPT ![j] = pool[Len(pool) - i]],
                                       rng, k + 1, i + 1, n)

Sample(population, n, rng, k) == SampleFrom(population, rng, k, 0, n)

(***************************************************************************)
(* times_tables.generate_problems                                          *)
(***************************************************************************)
\* a slip: range(1, 13) for range(13)
FixedProblemsFromOne(times_table) == [i \in 1..(NumFixed - 1) |-> <<times_table, i>>]

\* [(times_table, i) for i in range(13)]
FixedProblems(times_table) == [i \in 1..NumFixed |-> <<times_table, i - 1>>]

\* [(times_table, random.randint(0, 12)) for _ in range(7)]
ExtraProblems(times_table, rng) ==
    [i \in 1..NumExtra |-> <<times_table, RandInt(rng, i, 0, MaxMultiplier)>>]

generate_problems(times_table, rng) ==
    Shuffle(FixedProblems(times_table) \o ExtraProblems(times_table, rng),
            rng, NumExtra + 1)

\* TimesTableApp.start_practice, "Prepare problems"
gui_problems(table, rng) ==
    LET fixed == FixedProblems(table)
    IN Shuffle(fixed \o Sample(fixed, NumExtra, rng, 1), rng, NumExtra + 1)

(***************************************************************************)
(* The statistics store and its JSON text.                                 *)
(* A store is a Python dict in insertion order: a sequence of entries      *)
(* [key, stats].  best_time is None or a number.                           *)
(***************************************************************************)
None == [none |-> TRUE, v |-> 0]

Some(x) == [none |-> FALSE, v |-> x]

\* {"attempts": 0, "successes": 0, "failures": 0, "best_time": None}
NewStats == [attempts |-> 0, successes |-> 0, failures |-> 0, best_time |-> None]

Keys(store) == {store[i].key : i \in 1..Len(store)}

\* key in results
HasKey(store, key) == key \in Keys(store)

IndexOf(store, key) == CHOOSE i \in 1..Len(store) : store[i].key = key

\* results[key]
Get(store, key) == store[IndexOf(store, key)].stats

\* a slip: the store is rebuilt with the one entry
PutAlone(store, key, stats) == <<[key |-> key, stats |-> stats]>>

\* results[key] = stats
Put(store, key, stats) ==
    IF HasKey(store, key)
    THEN [store EXCEPT ![IndexOf(store, key)].stats = stats]
    ELSE Append(store, [key |-> key, stats |-> stats])

\* a token of the JSON text: a punctuation mark, a string, a number as it is
\* spelled, or null
Punct(c) == [k |-> c, s |-> <<>>]

StrTok(s) == [k |-> "str", s |-> s]

NumTok(s) == [k |-> "num", s |-> s]

NullTok == [k |-> "null", s |-> <<>>]

FieldNames == <<"attempts", "successes", "failures", "best_time">>

\* the digits after the point of float.__repr__, for f thousandths: as few as
\* spell the value, and at least one
FracDigits(f) ==
    IF f % 100 = 0 THEN <<Digits[(f \div 100) + 1]>>
    ELSE IF f % 10 = 0 THEN <<Digits[(f \div 100) + 1], Digits[((f \div 10) % 10) + 1]>>
    ELSE <<Digits[(f \div 100) + 1], Digits[((f \div 10) % 10) + 1], Digits[(f % 10) + 1]>>

\* float.__repr__ of a time of ms milliseconds, in seconds: 60000 is "60.0",
\* 60004 is "60.004", 45600 is "45.6"
Repr(ms) ==
    LET a == IF ms < 0 THEN 0 - ms ELSE ms
    IN (IF ms < 0 THEN <<"-">> ELSE <<>>)
       \o StrNat(a \div 1000) \o <<".">> \o FracDigits(a % 1000)

\* json.dump of a counter: an int
IntTok(n) == NumTok(Str(n))

\* json.dump of best_time: None is null, a float its repr
OptTok(o) == IF o.none THEN NullTok ELSE NumTok(Repr(o.v))

DumpStats(st) ==
    <<Punct("{"),
      StrTok(<<"attempts">>), Punct(":"), IntTok(st.attempts), Punct(","),
      StrTok(<<"successes">>), Punct(":"), IntTok(st.successes), Punct(","),
      StrTok(<<"failures">>), Punct(":"), IntTok(st.failures), Punct(","),
      StrTok(<<"best_time">>), Punct(":"), OptTok(st.best_time),
      Punct("}")>>

RECURSIVE DumpEntries(_)
DumpEntries(store) ==
    IF store = <<>> THEN <<>>
    ELSE <<StrTok(store[1].key), Punct(":")>> \o DumpStats(store[1].stats)
         \o (IF Len(store) > 1 THEN <<Punct(",")>> ELSE <<>>)
         \o DumpEntries(Tail(store))

\* json.dump(results, f, indent=2): the text written
Dump(store) == <<Punct("{")>> \o DumpEntries(store) \o <<Punct("}")>>

\* tokens of one entry: key : { 4 x (name : value) with 3 commas }
EntryLen == 19

IsNum(t) == t.k = "num"

\* json.load of a number spelled without a point: int(s)
IntOf(s) ==
    IF Head(s) = "-" THEN 0 - DigitsVal(Tail(s), 0) ELSE DigitsVal(s, 0)

\* 10 to the power 3 - n, for the n <= 3 digits after the point
Thousandths(n) == IF n = 1 THEN 100 ELSE IF n = 2 THEN 10 ELSE 1

\* json.load of a number read as a time: float(s) when s has a point, int(s)
\* when not, in milliseconds
MillisOf(s) ==
    LET neg == Head(s) = "-"
        body == IF neg THEN Tail(s) ELSE s
        dots == {i \in 1..Len(body) : body[i] = "."}
        a == IF dots = {} THEN 1000 * DigitsVal(body, 0)
             ELSE LET d == CHOOSE i \in dots : TRUE
                      frac == SubSeq(body, d + 1, Len(body))
                  IN 1000 * DigitsVal(SubSeq(body, 1, d - 1), 0)
                     + DigitsVal(frac, 0) * Thousandths(Len(frac))
    IN IF neg THEN 0 - a ELSE a

\* the entry starting at text[p], or ok = FALSE
ParseEntry(text, p) ==
    LET name(i) == text[p + 3 + 4 * (i - 1)]
        colon(i) == text[p + 4 + 4 * (i - 1)]
        val(i) == text[p + 5 + 4 * (i - 1)]
        good == /\ p + EntryLen - 1 <= Len(text)
                /\ text[p].k = "str"
                /\ text[p + 1] = Punct(":")
                /\ text[p + 2] = Punct("{")
                /\ \A i \in 1..4 : /\ name(i) = StrTok(<<FieldNames[i]>>)
                                   /\ colon(i) = Punct(":")
                /\ \A i \in 1..3 : IsNum(val(i)) /\ text[p + 6 + 4 * (i - 1)] = Punct(",")
                /\ (IsNum(val(4)) \/ val(4) = NullTok)
                /\ text[p + EntryLen - 1] = Punct("}")
    IN IF good
       THEN [ok |-> TRUE,
             entry |-> [key |-> text[p].s,
                        stats |-> [attempts |-> IntOf(val(1).s),
                                   successes |-> IntOf(val(2).s),
                                   failures |-> IntOf(val(3).s),
                                   best_time |-> IF IsNum(val(4))
                                                 THEN Some(MillisOf(val(4).s))
                                                 ELSE None]]]
       ELSE [ok |-> FALSE, entry |-> [key |-> <<>>, stats |-> NewStats]]

\* the entries from text[p] to the closing brace, which must end the text
RECURSIVE ParseEntries(_, _, _)
ParseEntries(text, p, acc) ==
    LET e == ParseEntry(text, p)
        q == p + EntryLen
    IN IF ~e.ok \/ q > Len(text) THEN [ok |-> FALSE, store |-> <<>>]
       ELSE IF text[q] = Punct("}")
            THEN [ok |-> q = Len(text), store |-> IF q = Len(text)
                                                THEN Put(acc, e.entry.key, e.entry.stats)
                                                ELSE <<>>]
       ELSE IF text[q] = Punct(",")
            THEN ParseEntries(text, q + 1, Put(acc, e.entry.key, e.entry.stats))
       ELSE [ok |-> FALSE, store |-> <<>>]

\* json.load(f): ok = FALSE stands for json.JSONDecodeError
Parse(text) ==
    IF Len(text) < 2 \/ text[1] # Punct("{") THEN [ok |-> FALSE, store |-> <<>>]
    ELSE IF text[2] = Punct("}") THEN [ok |-> Len(text) = 2, store |-> <<>>]
    ELSE ParseEntries(text, 2, <<>>)

(***************************************************************************)
(* results.json: exists is os.path.exists(RESULTS_FILE), text its content. *)
(***************************************************************************)
Absent == [exists |-> FALSE, text |-> <<>>]

FileOf(text) == [exists |-> TRUE, text |-> text]

\* a slip: a file that does not parse is read as the empty store
load_results_lenient(f) ==
    IF f.exists
    THEN LET r == Parse(f.text) IN [raised |-> FALSE, store |-> r.store]
    ELSE [raised |-> FALSE, store |-> <<>>]

\* times_tables.load_results and the load at the head of
\* TimesTableApp.save_results: the store, or raised = TRUE (JSONDecodeError)
load_results(f) ==
    IF f.exists
    THEN LET r == Parse(f.text) IN [raised |-> ~r.ok, store |-> r.store]
    ELSE [raised |-> FALSE, store |-> <<>>]

\* TimesTableApp.load_stats_for_table: raised, or found with the stats
load_stats_for_table(f, table) ==
    IF ~f.exists THEN [raised |-> FALSE, found |-> FALSE, stats |-> NewStats]
    ELSE LET r == Parse(f.text)
             key == Str(table)
         IN IF ~r.ok THEN [raised |-> TRUE, found |-> FALSE, stats |-> NewStats]
            ELSE IF HasKey(r.store, key)
                 THEN [raised |-> FALSE, found |-> TRUE, stats |-> Get(r.store, key)]
            ELSE [raised |-> FALSE, found |-> FALSE, stats |-> NewStats]

\* a slip: open(RESULTS_FILE, "a"), which keeps what the file holds
open_append(f) == IF f.exists THEN f ELSE FileOf(<<>>)

\* open(RESULTS_FILE, "w"): the file is created or truncated
open_w(f) == FileOf(<<>>)

\* json.dump into the open file f and the close that flushes it: the text goes
\* in after what the file holds since it was opened
write_close(f, store) == FileOf(f.text \o Dump(store))

(***************************************************************************)
(* Scoring and the merge of a session into the store.                      *)
(***************************************************************************)
\* round(x, 2) of an elapsed time: the nearest hundredth; a raw value half
\* way between two hundredths goes to either, as the binary float decides
Round2(ms) ==
    LET r == ms % Hundredth
        lo == ms - r
    IN IF 2 * r < Hundredth THEN {lo}
       ELSE IF 2 * r > Hundredth THEN {lo + Hundredth}
       ELSE {lo, lo + Hundredth}

\* a slip: elapsed < 60 for elapsed <= 60
cli_success_strict(correct_answers, elapsed) ==
    correct_answers = GoalCorrect /\ elapsed < GoalMillis

\* practice_table: correct_answers == 20 and elapsed <= 60
cli_success(correct_answers, elapsed) ==
    correct_answers = GoalCorrect /\ elapsed <= GoalMillis

\* finish_practice: self.correct_answers == 20 and elapsed <= 60
gui_success(correct_answers, elapsed) ==
    correct_answers = GoalCorrect /\ elapsed <= GoalMillis

\* a slip: elapsed > best_time for elapsed < best_time
ImprovesReversed(elapsed, best_time) == best_time.none \/ elapsed > best_time.v

\* best_time is None or elapsed < best_time
Improves(elapsed, best_time) == best_time.none \/ elapsed < best_time.v

\* a slip: the entry is replaced by a fresh one instead of updated
cli_merge_fresh(results, times_table, correct_answers, elapsed) ==
    LET key == Str(times_table)
        s1 == [NewStats EXCEPT !.attempts = 1]
        s2 == IF cli_success(correct_answers, elapsed)
              THEN [s1 EXCEPT !.successes = 1, !.best_time = Some(elapsed)]
              ELSE [s1 EXCEPT !.failures = 1]
    IN Put(results, key, s2)

\* practice_table, from key = str(times_table) to the last counter update
cli_merge(results, times_table, correct_answers, elapsed) ==
    LET key == Str(times_table)
        r0 == IF HasKey(results, key) THEN results ELSE Put(results, key, NewStats)
        s0 == Get(r0, key)
        s1 == [s0 EXCEPT !.attempts = @ + 1]
        s2 == IF cli_success(correct_answers, elapsed)
              THEN [s1 EXCEPT !.successes = @ + 1,
                              !.best_time = IF Improves(elapsed, @) THEN Some(elapsed)
                                            ELSE @]
              ELSE [s1 EXCEPT !.failures = @ + 1]
    IN Put(r0, key, s2)

\* a slip: attempts is counted only for a successful session
gui_merge_uncounted(results, table, success, elapsed) ==
    LET key == Str(table)
        s0 == IF HasKey(results, key) THEN Get(results, key) ELSE NewStats
        s2 == IF success
              THEN [s0 EXCEPT !.attempts = @ + 1, !.successes = @ + 1,
                              !.best_time = IF Improves(elapsed, @) THEN Some(elapsed)
                                            ELSE @]
              ELSE [s0 EXCEPT !.failures = @ + 1]
    IN Put(results, key, s2)

\* TimesTableApp.save_results, from results.get to results[str(self.table)] = stats
gui_merge(results, table, success, elapsed) ==
    LET key == Str(table)
        s0 == IF HasKey(results, key) THEN Get(results, key) ELSE NewStats
        s1 == [s0 EXCEPT !.attempts = @ + 1]
        s2 == IF success
              THEN [s1 EXCEPT !.successes = @ + 1,
                              !.best_time = IF Improves(elapsed, @) THEN Some(elapsed)
                                            ELSE @]
              ELSE [s1 EXCEPT !.failures = @ + 1]
    IN Put(results, key, s2)

(***************************************************************************)
(* Inputs explored.                                                        *)
(***************************************************************************)
\* what the user types for the table: "2", " 12", "1", "13", "x"
TableInputs == {<<"2">>, <<" ", "1", "2">>, <<"1">>, <<"1", "3">>, <<"x">>}

\* what the user types for a problem whose product is p: the product, the
\* product with a leading blank, a wrong number, a word, nothing
AnswerInputs(p) == {Str(p), <<" ">> \o Str(p), Str(p + 1), <<"x">>, <<>>}

\* time.time() - start_time at the end of a session, in milliseconds; time.time()
\* is the wall clock, so the difference is negative when the clock was set back
\* during the session
ElapsedChoices == {-1000, 20000, 60000, 60004, 60005, 60010}

\* the random streams a session may draw from
SessStreams == {[seed |-> SessSeed, stride |-> SessStride]}

\* the random streams and tables generate_problems is called with directly
GenStreams == {[seed |-> s, stride |-> d] : s \in 0..MaxSeed, d \in 0..MaxStride}

GenTables == (0 - MaxGenTable)..(MaxTable + MaxGenTable)

(***************************************************************************)
(* State.                                                                  *)
(***************************************************************************)
VARIABLES
    file,       \* results.json
    proc,       \* the front end running: "none", "cli", "gui"
    pc,         \* where the front end is
    sess,       \* the session's variables
    out,        \* the last thing the front end printed or showed
    exc,        \* the exception the last step raised, caught or not; "" if none
    nSessions,  \* history: sessions started
    base,       \* history: results.json when the current session started
    log,        \* history: the store operations of the current session
    tally,      \* history: per key, the completed sessions saved
    gen         \* a direct call of generate_problems

vars == <<file, proc, pc, sess, out, exc, nSessions, base, log, tally, gen>>

NoRng == [seed |-> 0, stride |-> 0]

\* no session: the session variables hold nothing that is read
IdleSess == [table |-> 0, problems |-> <<>>, idx |-> 0, correct |-> 0,
             raw |-> 0, elapsed |-> 0, success |-> FALSE, results |-> <<>>]

NewSess(table, problems) == [IdleSess EXCEPT !.table = table, !.problems = problems]

\* the keys a validated table selection can give
TableKeys == {Str(t) : t \in MinTable..MaxTable}

NoTally == [n |-> 0, succ |-> 0, times |-> {}]

\* the definition of a successful session (spec, section 3)
ReportSuccess(correct, elapsed) == correct = GoalCorrect /\ elapsed <= GoalMillis

\* the tally after one more saved session
Tallied(t, key, correct, elapsed) ==
    LET ok == ReportSuccess(correct, elapsed)
        old == t[key]
    IN [t EXCEPT ![key] =
          [n |-> old.n + 1,
           succ |-> old.succ + (IF ok THEN 1 ELSE 0),
           times |-> IF ok THEN old.times \cup {elapsed} ELSE old.times]]

GenIdle == [pc |-> "idle", table |-> 0, rng |-> NoRng, out |-> <<>>]

\* the statistics file is absent or holds the empty store
InitFiles == {Absent, FileOf(Dump(<<>>))}

Init ==
    /\ file \in InitFiles
    /\ proc = "none"
    /\ pc = "off"
    /\ sess = IdleSess
    /\ out = ""
    /\ exc = ""
    /\ nSessions = 0
    /\ base = file
    /\ log = <<>>
    /\ tally = [k \in TableKeys |-> NoTally]
    /\ gen = GenIdle

ghostVars == <<nSessions, base, log, tally>>

(***************************************************************************)
(* The user starts a front end, or the process ends.                       *)
(***************************************************************************)
\* python times_tables.py: main()
LaunchCli ==
    /\ proc = "none"
    /\ proc' = "cli" /\ pc' = "menu" /\ out' = "menu" /\ exc' = ""
    /\ UNCHANGED <<file, sess, ghostVars, gen>>

\* python times_tables_gui.py: TimesTableApp.__init__ and mainloop
LaunchGui ==
    /\ proc = "none"
    /\ proc' = "gui" /\ pc' = "select" /\ out' = "choose" /\ exc' = ""
    /\ UNCHANGED <<file, sess, ghostVars, gen>>

\* what is on disk when the process dies with results.json open for writing:
\* nothing of the buffered text, or a part of it when the flush was cut short
TornTexts(store) == {<<>>, SubSeq(Dump(store), 1, Len(Dump(store)) \div 2)}

\* the process is terminated (killed, window closed, terminal closed)
Kill ==
    /\ proc # "none"
    /\ proc' = "none" /\ pc' = "off" /\ sess' = IdleSess /\ out' = "killed" /\ exc' = ""
    /\ IF pc = "write"
       THEN \E t \in TornTexts(sess.results) : file' = FileOf(t)
       ELSE file' = file
    /\ UNCHANGED <<ghostVars, gen>>

(***************************************************************************)
(* The command-line front end: times_tables.main and practice_table.       *)
(***************************************************************************)
\* a slip: 1 <= table <= 12
InRangeFromOne(table) == MinTable - 1 <= table /\ table <= MaxTable

\* 2 <= table <= 12
InRange(table) == MinTable <= table /\ table <= MaxTable

\* practice_table, the body of the for loop: the points scored and the print
cli_score(problem, answer) ==
    LET p == ParseInt(answer)
    IN IF ~p.ok THEN [scored |-> 0, out |-> "Not a number!", exc |-> "ValueError"]
       ELSE IF p.val = problem[1] * problem[2]
       THEN [scored |-> 1, out |-> "", exc |-> ""]
       ELSE [scored |-> 0, out |-> "Wrong!", exc |-> ""]

\* main, choice "1": the table is read and validated, and practice_table runs
\* up to its first input()
CliPractice(s, rng) ==
    /\ proc = "cli" /\ pc = "menu"
    /\ LET p == ParseInt(s)
       IN IF ~p.ok
          THEN /\ out' = "Please enter a valid number."
               /\ exc' = "ValueError"
               /\ UNCHANGED <<pc, sess, ghostVars>>
          ELSE IF ~InRange(p.val)
          THEN /\ out' = "Please choose between 2 and 12."
               /\ exc' = ""
               /\ UNCHANGED <<pc, sess, ghostVars>>
          ELSE /\ nSessions < MaxSessions
               /\ sess' = NewSess(p.val, generate_problems(p.val, rng))
               /\ pc' = "ask"
               /\ out' = "Practicing"
               /\ exc' = ""
               /\ nSessions' = nSessions + 1
               /\ base' = file
               /\ log' = <<>>
               /\ UNCHANGED tally
    /\ UNCHANGED <<file, proc, gen>>

\* a slip: no try/except around int(answer), so the ValueError leaves
\* practice_table and is caught by main
CliAnswerUnguarded(answer) ==
    /\ proc = "cli" /\ pc = "ask"
    /\ LET r == cli_score(sess.problems[sess.idx + 1], answer)
       IN IF r.exc = "ValueError"
          THEN /\ sess' = IdleSess
               /\ out' = "Please enter a valid number."
               /\ exc' = r.exc
               /\ pc' = "menu"
          ELSE /\ sess' = [sess EXCEPT !.idx = @ + 1, !.correct = @ + r.scored]
               /\ out' = r.out
               /\ exc' = r.exc
               /\ pc' = IF sess.idx + 1 < Len(sess.problems) THEN "ask" ELSE "finish"
    /\ UNCHANGED <<file, proc, ghostVars, gen>>

\* practice_table, one turn of the for loop: input() returns answer
CliAnswer(answer) ==
    /\ proc = "cli" /\ pc = "ask"
    /\ LET r == cli_score(sess.problems[sess.idx + 1], answer)
       IN /\ sess' = [sess EXCEPT !.idx = @ + 1, !.correct = @ + r.scored]
          /\ out' = r.out
          /\ exc' = r.exc
    /\ pc' = IF sess.idx + 1 < Len(sess.problems) THEN "ask" ELSE "finish"
    /\ UNCHANGED <<file, proc, ghostVars, gen>>

\* practice_table after the loop: elapsed is taken and the store is loaded; a
\* JSONDecodeError is a ValueError and is caught by main's except ValueError
CliFinish(raw, elapsed) ==
    /\ proc = "cli" /\ pc = "finish"
    /\ elapsed \in Round2(raw)
    /\ LET l == load_results(file)
       IN IF l.raised
          THEN /\ pc' = "menu"
               /\ sess' = IdleSess
               /\ out' = "Please enter a valid number."
               /\ exc' = "JSONDecodeError"
               /\ UNCHANGED log
          ELSE /\ pc' = "merge"
               /\ sess' = [sess EXCEPT !.raw = raw, !.elapsed = elapsed,
                                       !.results = l.store]
               /\ out' = out
               /\ exc' = ""
               /\ log' = Append(log, "load")
    /\ UNCHANGED <<file, proc, nSessions, base, tally, gen>>

\* a slip: practice_table returns after the merge without save_results
CliMergeUnsaved ==
    /\ proc = "cli" /\ pc = "merge"
    /\ sess' = IdleSess
    /\ out' = IF cli_success(sess.correct, sess.elapsed) THEN "Success!"
              ELSE "Goal not reached"
    /\ exc' = ""
    /\ pc' = "menu"
    /\ log' = Append(log, "merge")
    /\ UNCHANGED <<file, proc, nSessions, base, tally, gen>>

\* practice_table: the entry of the table is created and updated
CliMerge ==
    /\ proc = "cli" /\ pc = "merge"
    /\ sess' = [sess EXCEPT !.results =
                  cli_merge(sess.results, sess.table, sess.correct, sess.elapsed)]
    /\ out' = IF cli_success(sess.correct, sess.elapsed) THEN "Success!"
              ELSE "Goal not reached"
    /\ exc' = ""
    /\ pc' = "save"
    /\ log' = Append(log, "merge")
    /\ UNCHANGED <<file, proc, nSessions, base, tally, gen>>

\* save_results: open(RESULTS_FILE, "w"), which truncates the file, or raises
\* OSError when the file cannot be opened for writing (read-only file, full
\* disk); main catches ValueError only, so the OSError ends the process
CliSaveOpen ==
    /\ proc = "cli" /\ pc = "save"
    /\ \/ /\ file' = open_w(file)
          /\ pc' = "write"
          /\ exc' = ""
          /\ UNCHANGED <<proc, sess, out>>
       \/ /\ proc' = "none" /\ pc' = "off"
          /\ sess' = IdleSess
          /\ out' = "Traceback" /\ exc' = "OSError"
          /\ UNCHANGED file
    /\ UNCHANGED <<ghostVars, gen>>

\* save_results: json.dump and the end of the with block; practice_table
\* returns to main
CliSaveClose ==
    /\ proc = "cli" /\ pc = "write"
    /\ file' = write_close(file, sess.results)
    /\ pc' = "menu"
    /\ sess' = IdleSess
    /\ log' = Append(log, "save")
    /\ tally' = Tallied(tally, Str(sess.table), sess.correct, sess.elapsed)
    /\ base' = file'
    /\ exc' = ""
    /\ UNCHANGED <<proc, out, nSessions, gen>>

\* main, choice "2": show_stats; a JSONDecodeError is not caught here and
\* ends the process
CliShowStats ==
    /\ proc = "cli" /\ pc = "menu"
    /\ LET l == load_results(file)
       IN IF l.raised
          THEN /\ proc' = "none" /\ pc' = "off"
               /\ out' = "Traceback" /\ exc' = "JSONDecodeError"
          ELSE /\ UNCHANGED <<proc, pc>>
               /\ exc' = ""
               /\ out' = IF l.store = <<>> THEN "No stats yet. Go practice!"
                         ELSE "Stats by Times Table"
    /\ UNCHANGED <<file, sess, ghostVars, gen>>

\* main, choice "3"
CliQuit ==
    /\ proc = "cli" /\ pc = "menu"
    /\ proc' = "none" /\ pc' = "off" /\ out' = "Goodbye!" /\ exc' = ""
    /\ UNCHANGED <<file, sess, ghostVars, gen>>

\* main, any other choice
CliInvalidChoice ==
    /\ proc = "cli" /\ pc = "menu"
    /\ out' = "Invalid choice, try again." /\ exc' = ""
    /\ UNCHANGED <<file, proc, pc, sess, ghostVars, gen>>

(***************************************************************************)
(* The graphical front end: TimesTableApp.                                 *)
(***************************************************************************)
\* a slip: the answer is compared with a + b
gui_score_sum(problem, value) == IF value = problem[1] + problem[2] THEN 1 ELSE 0

\* check_answer, after int(): the points scored
gui_score(problem, value) == IF value = problem[1] * problem[2] THEN 1 ELSE 0

\* start_practice: the Start button, or Enter on the selection screen.  The
\* statistics of the table are loaded for display outside the try block.
GuiStart(s, rng) ==
    /\ proc = "gui" /\ pc = "select"
    /\ LET p == ParseInt(s)
       IN IF ~p.ok \/ ~InRange(p.val)
          THEN /\ out' = "Invalid Input: Please enter a number between 2 and 12."
               /\ exc' = "ValueError"
               /\ UNCHANGED <<pc, sess, ghostVars>>
          ELSE IF load_stats_for_table(file, p.val).raised
          THEN /\ out' = "Traceback"
               /\ exc' = "JSONDecodeError"
               /\ UNCHANGED <<pc, sess, ghostVars>>
          ELSE /\ nSessions < MaxSessions
               /\ sess' = NewSess(p.val, gui_problems(p.val, rng))
               /\ pc' = "question"
               /\ out' = "question"
               /\ exc' = ""
               /\ nSessions' = nSessions + 1
               /\ base' = file
               /\ log' = <<>>
               /\ UNCHANGED tally
    /\ UNCHANGED <<file, proc, gen>>

\* check_answer: the Submit button, or Enter on the question screen; then
\* show_question, which asks the next problem or goes on to finish_practice.
\* After a finish_practice that raised (the load or the open of save_results
\* failed), the question screen is still shown with current_index = 20, and
\* self.problems[20] raises IndexError.
GuiSubmit(answer) ==
    /\ proc = "gui" /\ pc = "question"
    /\ LET p == ParseInt(answer)
       IN IF ~p.ok
          THEN /\ out' = "Invalid: Please enter a number."
               /\ exc' = "ValueError"
               /\ UNCHANGED <<pc, sess>>
          ELSE IF sess.idx >= Len(sess.problems)
          THEN /\ out' = "Traceback"
               /\ exc' = "IndexError"
               /\ UNCHANGED <<pc, sess>>
          ELSE /\ sess' = [sess EXCEPT
                             !.idx = @ + 1,
                             !.correct = @ + gui_score(sess.problems[sess.idx + 1], p.val)]
               /\ out' = "question"
               /\ exc' = ""
               /\ pc' = IF sess.idx + 1 < Len(sess.problems) THEN "question"
                        ELSE "finish"
    /\ UNCHANGED <<file, proc, ghostVars, gen>>

\* finish_practice up to the load at the head of save_results: elapsed is
\* taken unrounded and success decided; a JSONDecodeError ends the callback
\* and leaves the question screen up
GuiFinish(raw) ==
    /\ proc = "gui" /\ pc = "finish"
    /\ LET l == load_results(file)
       IN IF l.raised
          THEN /\ pc' = "question"
               /\ sess' = [sess EXCEPT !.raw = raw, !.elapsed = raw,
                                       !.success = gui_success(sess.correct, raw)]
               /\ out' = "Traceback"
               /\ exc' = "JSONDecodeError"
               /\ UNCHANGED log
          ELSE /\ pc' = "merge"
               /\ sess' = [sess EXCEPT !.raw = raw, !.elapsed = raw,
                                       !.success = gui_success(sess.correct, raw),
                                       !.results = l.store]
               /\ out' = out
               /\ exc' = ""
               /\ log' = Append(log, "load")
    /\ UNCHANGED <<file, proc, nSessions, base, tally, gen>>

\* save_results: the entry of the table is fetched or created, updated and
\* put back
GuiMerge ==
    /\ proc = "gui" /\ pc = "merge"
    /\ sess' = [sess EXCEPT !.results =
                  gui_merge(sess.results, sess.table, sess.success, sess.elapsed)]
    /\ pc' = "save"
    /\ log' = Append(log, "merge")
    /\ exc' = ""
    /\ UNCHANGED <<file, proc, out, nSessions, base, tally, gen>>

\* save_results: open(RESULTS_FILE, "w"), which truncates the file, or raises
\* OSError when the file cannot be opened for writing; the OSError ends the
\* callback inside finish_practice and leaves the question screen up, with
\* current_index = 20
GuiSaveOpen ==
    /\ proc = "gui" /\ pc = "save"
    /\ \/ /\ file' = open_w(file)
          /\ pc' = "write"
          /\ exc' = ""
          /\ UNCHANGED <<sess, out>>
       \/ /\ pc' = "question"
          /\ out' = "Traceback" /\ exc' = "OSError"
          /\ UNCHANGED <<file, sess>>
    /\ UNCHANGED <<proc, ghostVars, gen>>

\* save_results: json.dump and the end of the with block; finish_practice
\* shows the result and puts the selection screen back
GuiSaveClose ==
    /\ proc = "gui" /\ pc = "write"
    /\ file' = write_close(file, sess.results)
    /\ pc' = "select"
    /\ out' = IF sess.success THEN "Success!" ELSE "Try Again"
    /\ sess' = IdleSess
    /\ log' = Append(log, "save")
    /\ tally' = Tallied(tally, Str(sess.table), sess.correct, sess.elapsed)
    /\ base' = file'
    /\ exc' = ""
    /\ UNCHANGED <<proc, nSessions, gen>>

(***************************************************************************)
(* The two front ends and the file, one process at a time.                 *)
(***************************************************************************)
mainVars == <<file, proc, pc, sess, out, exc, nSessions, base, log, tally>>

Next ==
    \/ LaunchCli
    \/ LaunchGui
    \/ Kill
    \/ \E s \in TableInputs, rng \in SessStreams : CliPractice(s, rng)
    \/ \E a \in AnswerInputs(IF pc = "ask"
                             THEN sess.problems[sess.idx + 1][1] * sess.problems[sess.idx + 1][2]
                             ELSE 0) : CliAnswer(a)
    \/ \E raw \in ElapsedChoices : \E e \in Round2(raw) : CliFinish(raw, e)
    \/ CliMerge
    \/ CliSaveOpen
    \/ CliSaveClose
    \/ CliShowStats
    \/ CliQuit
    \/ CliInvalidChoice
    \/ \E s \in TableInputs, rng \in SessStreams : GuiStart(s, rng)
    \/ \E a \in AnswerInputs(IF pc = "question" /\ sess.idx < Len(sess.problems)
                             THEN sess.problems[sess.idx + 1][1] * sess.problems[sess.idx + 1][2]
                             ELSE 0) : GuiSubmit(a)
    \/ \E raw \in ElapsedChoices : GuiFinish(raw)
    \/ GuiMerge
    \/ GuiSaveOpen
    \/ GuiSaveClose

Spec == Init /\ [][Next]_vars

(***************************************************************************)
(* generate_problems called directly, with any table.                      *)
(***************************************************************************)
GenInit ==
    /\ file = Absent
    /\ proc = "none"
    /\ pc = "off"
    /\ sess = IdleSess
    /\ out = ""
    /\ exc = ""
    /\ nSessions = 0
    /\ base = file
    /\ log = <<>>
    /\ tally = [k \in TableKeys |-> NoTally]
    /\ \E t \in GenTables, r \in GenStreams :
          gen = [pc |-> "call", table |-> t, rng |-> r, out |-> <<>>]

GenCall ==
    /\ gen.pc = "call"
    /\ gen' = [gen EXCEPT !.pc = "ret", !.out = generate_problems(gen.table, gen.rng)]
    /\ UNCHANGED mainVars

GenNext == GenCall

SpecGen == GenInit /\ [][GenNext]_vars

(***************************************************************************)
(* save_results and load_results called directly, with any store, over any *)
(* older file: test_save_and_load_results.                                 *)
(***************************************************************************)
StoreKeys == {Str(MinTable), Str(MinTable + 1), Str(MaxTable)}

\* statistics of a table: none yet, the test's 45.6 s, two-digit counters,
\* times with one, two and three digits after the point, and no best time
StoreStats ==
    {NewStats,
     [attempts |-> 1, successes |-> 1, failures |-> 0, best_time |-> Some(45600)],
     [attempts |-> 12, successes |-> 2, failures |-> 10, best_time |-> Some(20050)],
     [attempts |-> 2, successes |-> 1, failures |-> 1, best_time |-> Some(60004)],
     [attempts |-> 1, successes |-> 1, failures |-> 0, best_time |-> Some(50)],
     [attempts |-> 3, successes |-> 0, failures |-> 3, best_time |-> None]}

StoreEntries == {[key |-> k, stats |-> st] : k \in StoreKeys, st \in StoreStats}

\* the dicts of at most n entries: no key twice, in any insertion order
Stores(n) ==
    UNION {{st \in [1..m -> StoreEntries] :
               \A i \in 1..m : \A j \in 1..m : st[i].key = st[j].key => i = j}
           : m \in 0..n}

\* what results.json may hold before the save: nothing, an empty file, or a
\* store saved earlier
OlderFiles == {Absent, FileOf(<<>>)} \cup {FileOf(Dump(st)) : st \in Stores(1)}

StoreInit ==
    /\ file \in OlderFiles
    /\ proc = "test"
    /\ pc = "save"
    /\ \E st \in Stores(MaxStoreLen) : sess = [IdleSess EXCEPT !.results = st]
    /\ out = ""
    /\ exc = ""
    /\ nSessions = 0
    /\ base = file
    /\ log = <<>>
    /\ tally = [k \in TableKeys |-> NoTally]
    /\ gen = GenIdle

\* save_results(results): open(RESULTS_FILE, "w")
StoreSaveOpen ==
    /\ proc = "test" /\ pc = "save"
    /\ file' = open_w(file)
    /\ pc' = "write"
    /\ UNCHANGED <<proc, sess, out, exc, ghostVars, gen>>

\* save_results(results): json.dump and the end of the with block
StoreSaveClose ==
    /\ proc = "test" /\ pc = "write"
    /\ file' = write_close(file, sess.results)
    /\ pc' = "saved"
    /\ UNCHANGED <<proc, sess, out, exc, ghostVars, gen>>

\* the store is read back from the file
StoreLoad ==
    /\ proc = "test" /\ pc = "saved"
    /\ LET l == load_results(file)
       IN IF l.raised
          THEN exc' = "JSONDecodeError" /\ UNCHANGED sess
          ELSE exc' = "" /\ sess' = [sess EXCEPT !.results = l.store]
    /\ pc' = "loaded"
    /\ UNCHANGED <<file, proc, out, ghostVars, gen>>

StoreNext == StoreSaveOpen \/ StoreSaveClose \/ StoreLoad

SpecStore == StoreInit /\ [][StoreNext]_vars

(***************************************************************************)
(* Properties.                                                             *)
(***************************************************************************)
\* the stats of key in the file f; a fresh entry when f is absent or has none
StatsOf(f, key) ==
    LET l == load_results(f)
    IN IF ~l.raised /\ HasKey(l.store, key) THEN Get(l.store, key) ELSE NewStats

SessionPcs == {"ask", "question", "finish", "merge", "save", "write"}

\* this step ends a session normally: its last statement has run
Completes == proc' = proc /\ pc \in SessionPcs /\ pc' \notin SessionPcs /\ exc' = ""

SetMin(S) == CHOOSE x \in S : \A y \in S : x <= y

Multipliers(problems) == {problems[i][2] : i \in 1..Len(problems)}

\* C1: for every table, in or out of 2..12, and every random stream,
\* generate_problems returns 20 pairs, each with the table as first component
\* and a multiplier in 0..12, and every multiplier 0..12 occurs.
C1_GenerateProblems ==
    gen.pc = "ret" =>
        /\ Len(gen.out) = 20
        /\ \A i \in 1..Len(gen.out) : gen.out[i][1] = gen.table
        /\ Multipliers(gen.out) = 0..12

\* a call with a table outside 2..12 has returned, the problems out of order
\* and an extra multiplier 12 drawn
C1_Witness ==
    /\ gen.pc = "ret"
    /\ gen.table = MaxTable + 1
    /\ gen.out[1][2] # 0
    /\ Cardinality({i \in 1..Len(gen.out) : gen.out[i][2] = 12}) > 1

\* C2 as stated: a completed session is recorded as a success exactly when
\* all 20 answers were correct and the time taken, measured in hundredths of
\* a second, is at most 60 s.
C2_AsStated ==
    [][Completes =>
         LET key == Str(sess.table)
             recorded == StatsOf(file', key).successes = StatsOf(base, key).successes + 1
         IN \E h \in Round2(sess.raw) :
               recorded <=> (sess.correct = 20 /\ h <= GoalMillis)]_vars

\* C2 amended: a completed session is recorded as a success exactly when all
\* 20 answers were correct and the front end's elapsed value is at most 60 s,
\* and as a failure otherwise; the command line's elapsed value is the time
\* taken rounded to hundredths, the graphical front end's is the time taken
\* unrounded.
C2_SuccessRule ==
    [][Completes =>
         LET key == Str(sess.table)
             old == StatsOf(base, key)
             new == StatsOf(file', key)
             goal == sess.correct = 20 /\ sess.elapsed <= GoalMillis
         IN /\ new.successes = old.successes + 1 <=> goal
            /\ new.failures = old.failures + 1 <=> ~goal
            /\ new.successes = old.successes <=> ~goal
            /\ proc = "cli" => sess.elapsed \in Round2(sess.raw)
            /\ proc = "gui" => sess.elapsed = sess.raw]_vars

\* a command-line session with 20 correct answers that took 60.004 s is
\* about to be saved as a success with elapsed 60.00
C2_Witness ==
    /\ proc = "cli" /\ pc = "write"
    /\ sess.correct = 20 /\ sess.raw = 60004 /\ sess.elapsed = GoalMillis
    /\ Get(sess.results, Str(sess.table)).successes = 1

\* C3: from an absent or empty statistics file, every entry of the file has
\* attempts = successes + failures with the three counters >= 0.
C3_CountersAddUp ==
    LET l == load_results(file)
    IN ~l.raised =>
         \A i \in 1..Len(l.store) :
            LET st == l.store[i].stats
            IN /\ st.attempts = st.successes + st.failures
               /\ st.attempts >= 0 /\ st.successes >= 0 /\ st.failures >= 0

\* the file holds an entry with a success and a failure
C3_Witness ==
    LET l == load_results(file)
    IN /\ file.exists /\ ~l.raised
       /\ \E i \in 1..Len(l.store) :
             l.store[i].stats.successes = 1 /\ l.store[i].stats.failures = 1

\* C4: a completed session on a table adds 1 to the attempts of its entry and
\* 1 to successes if it succeeded, to failures if not, counting from zero and
\* no best time when the entry did not exist; so the entry counts the sessions
\* saved for the table, and a first session leaves {1, 1, 0, elapsed} or
\* {1, 0, 1, absent}.
C4_MergeAdds ==
    [][Completes =>
         LET key == Str(sess.table)
             old == StatsOf(base, key)
             new == StatsOf(file', key)
             ok == ReportSuccess(sess.correct, sess.elapsed)
             k == IF ok THEN 1 ELSE 0
         IN /\ new.attempts = old.attempts + 1
            /\ new.successes = old.successes + k
            /\ new.failures = old.failures + (1 - k)
            /\ old.attempts = 0 =>
                  new = [attempts |-> 1, successes |-> k, failures |-> 1 - k,
                         best_time |-> IF ok THEN Some(sess.elapsed) ELSE None]
            /\ new.attempts = tally'[key].n
            /\ new.successes = tally'[key].succ]_vars

\* two sessions with the same report have been saved for a table
C4_Witness ==
    \E key \in TableKeys :
        /\ StatsOf(file, key) = [attempts |-> 2, successes |-> 2, failures |-> 0,
                                 best_time |-> Some(20000)]
        /\ tally[key].n = 2

\* C5: a failed session leaves best_time as it was, a successful one replaces
\* it only when it was absent or the new elapsed time is smaller, and the
\* best_time of an entry is the least elapsed time of the successful sessions
\* saved for the table, absent when there is none.
C5_BestTime ==
    [][/\ Completes =>
            LET key == Str(sess.table)
                old == StatsOf(base, key).best_time
                new == StatsOf(file', key).best_time
            IN IF ~ReportSuccess(sess.correct, sess.elapsed) THEN new = old
               ELSE IF old.none \/ sess.elapsed < old.v THEN new = Some(sess.elapsed)
               ELSE new = old
       /\ file' # file =>
            \A l \in {load_results(file')} :
               ~l.raised =>
                 \A key \in TableKeys :
                    (IF HasKey(l.store, key) THEN Get(l.store, key).best_time ELSE None)
                       = IF tally'[key].times = {} THEN None
                         ELSE Some(SetMin(tally'[key].times))]_vars

\* a successful session slower than the best time is about to be saved and
\* the best time stays
C5_Witness ==
    /\ pc = "write"
    /\ ReportSuccess(sess.correct, sess.elapsed) /\ sess.elapsed = GoalMillis
    /\ StatsOf(base, Str(sess.table)).best_time = Some(20000)
    /\ Get(sess.results, Str(sess.table)).best_time = Some(20000)

StoreOrder == <<"load", "merge", "save">>

\* C7: a session touches the store in the order load, merge, save; the file
\* is written only after the load and the merge; the merge works on the store
\* as loaded from the file; a session that completes has done each of the
\* three once and has saved the merged store.
C7_LoadMergeSave ==
    [][/\ \E n \in 0..Len(StoreOrder) : log' = SubSeq(StoreOrder, 1, n)
       /\ file' # file => pc \in {"save", "write"} /\ log = <<"load", "merge">>
       /\ (pc = "finish" /\ pc' = "merge") =>
            ~load_results(file).raised /\ sess'.results = load_results(file).store
       /\ Completes =>
            /\ log' = StoreOrder
            /\ ~load_results(file').raised
            /\ load_results(file').store = sess.results]_vars

\* a session has completed on a store that already had an entry
C7_Witness ==
    /\ pc \in {"menu", "select"}
    /\ log = StoreOrder
    /\ ~load_results(file).raised /\ Len(load_results(file).store) = 2

\* C8 as stated: a process that ends during a session, at any step up to the
\* end of the save, leaves the statistics file as it was when the session
\* started.
C8_AbandonKeepsFile ==
    [][(proc # "none" /\ proc' = "none" /\ pc \in SessionPcs) => file' = base]_vars

\* C9 as stated: at every point of a save, loading the statistics file gives
\* the complete previous store or the complete new store.
C9_SaveAtomic ==
    pc \in {"save", "write"} =>
        LET l == load_results(file)
        IN /\ ~l.raised
           /\ l.store = load_results(base).store \/ l.store = sess.results

Corrupt(f) == f.exists /\ ~Parse(f.text).ok

\* C10: the load of a session gives the store the file holds when the file is
\* well formed, the empty store when there is no file, and raises when the
\* file does not parse: then no store is put in its place, the session goes
\* no further and the file stays as it is.
C10_Load ==
    [][/\ (pc = "finish" /\ proc' = proc) =>
            IF ~file.exists
            THEN exc' = "" /\ pc' = "merge" /\ sess'.results = <<>>
            ELSE IF ~Corrupt(file)
            THEN exc' = "" /\ pc' = "merge" /\ Dump(sess'.results) = file.text
            ELSE exc' = "JSONDecodeError" /\ pc' \notin {"merge", "save", "write"}
       /\ (pc # "write" /\ file' # file) => ~Corrupt(file)]_vars

\* a command-line session met a partly written file: the load raised and the
\* file is as it was
C10_Witness ==
    /\ proc = "cli" /\ pc = "menu"
    /\ exc = "JSONDecodeError"
    /\ Corrupt(file) /\ file.text # <<>>
    /\ nSessions = 2

\* C11: for every store, over whatever the file held before, save followed by
\* load returns the store that was saved, entry for entry and field for
\* field, and no entry of the older file is in it unless the saved store has
\* it.
C11_RoundTrip ==
    [][(pc = "saved" /\ pc' = "loaded") =>
          /\ exc' = ""
          /\ sess'.results = sess.results
          /\ file = FileOf(Dump(sess.results))
          /\ \A k \in Keys(load_results(base).store) :
                HasKey(sess'.results, k) => HasKey(sess.results, k)]_vars

\* a store of two entries, one with no best time and one with 20.05 s, has
\* been saved over a file that held another table's entry, and read back
C11_Witness ==
    /\ pc = "loaded" /\ exc = ""
    /\ Keys(sess.results) = {Str(MinTable), Str(MaxTable)}
    /\ Get(sess.results, Str(MinTable)).best_time = None
    /\ Get(sess.results, Str(MaxTable)).best_time = Some(20050)
    /\ base.exists /\ Parse(base.text).ok
    /\ Keys(Parse(base.text).store) = {Str(MinTable + 1)}

\* the number of problems with multiplier m
Occurrences(problems, m) == Cardinality({i \in 1..Len(problems) : problems[i][2] = m})

C13_OtherEntriesKept ==
    [][Completes =>
         \A old \in {load_results(base).store}, new \in {load_results(file').store} :
            LET key == Str(sess.table)
            IN /\ ~load_results(file').raised
               /\ HasKey(new, key)
               /\ \A k \in (Keys(old) \cup Keys(new)) \ {key} :
                     HasKey(old, k) /\ HasKey(new, k) /\ Get(new, k) = Get(old, k)
               /\ \A i \in 1..Len(old) : new[i].key = old[i].key
               /\ Len(new) = Len(old) + (IF HasKey(old, key) THEN 0 ELSE 1)]_vars

\* a failed session on table 12 has completed after a successful one on
\* table 2, whose entry is as that session left it
C13_Witness ==
    /\ pc \in {"menu", "select"} /\ log = StoreOrder /\ nSessions = 2
    /\ tally[Str(MinTable)].n = 1 /\ tally[Str(MaxTable)].n = 1
    /\ load_results(file).store =
          <<[key |-> Str(MinTable),
             stats |-> [attempts |-> 1, successes |-> 1, failures |-> 0,
                        best_time |-> Some(20000)]],
            [key |-> Str(MaxTable),
             stats |-> [attempts |-> 1, successes |-> 0, failures |-> 1,
                        best_time |-> None]]>>

\* what a front end shows when it refuses a table selection
Refusals == {"Please enter a valid number.", "Please choose between 2 and 12.",
             "Invalid Input: Please enter a number between 2 and 12."}

\* C14: a table selection that is not an integer, or is an integer outside
\* 2..12, is refused: the front end stays at its menu or selection screen, no
\* problems are generated, no session is counted and the file is not touched;
\* a session starts on a table in 2..12 only, and every key of the file is one
\* of "2".."12".
C14_InvalidSelection ==
    [][/\ \A s \in TableInputs :
            (\A p \in {ParseInt(s)} : ~p.ok \/ p.val \notin MinTable..MaxTable) =>
               \A rng \in SessStreams :
                  (CliPractice(s, rng) \/ GuiStart(s, rng)) =>
                     /\ pc' = pc /\ pc \in {"menu", "select"}
                     /\ sess' = sess /\ sess.problems = <<>>
                     /\ file' = file
                     /\ nSessions' = nSessions
                     /\ out' \in Refusals
       /\ (pc \in {"menu", "select"} /\ pc' \in {"ask", "question"}) =>
            sess'.table \in MinTable..MaxTable
       /\ file' # file => Keys(load_results(file').store) \subseteq TableKeys]_vars

\* the graphical front end has refused a selection, after sessions on tables
\* 2 and 12 (typed " 12") were saved
C14_Witness ==
    /\ proc = "gui" /\ pc = "select" /\ sess = IdleSess
    /\ exc = "ValueError" /\ out \in Refusals
    /\ Keys(load_results(file).store) = {Str(MinTable), Str(MaxTable)}

\* C15 as stated: from an absent or empty statistics file, every entry of
\* the file has a best time exactly when it has a success, and a best time is
\* between 0 and 60 seconds inclusive.
C15_BestTimeRange ==
    \A l \in {load_results(file)} :
       ~l.raised =>
          \A i \in 1..Len(l.store) :
             LET st == l.store[i].stats
             IN /\ st.best_time.none <=> st.successes = 0
                /\ ~st.best_time.none => 0 <= st.best_time.v /\ st.best_time.v <= GoalMillis

\* C16 as stated: in a session of the graphical front end
\* 0 <= correct_answers <= current_index <= 20 at every step; a submission
\* that is not an integer leaves both as they are; every submission that is
\* an integer adds exactly 1 to current_index; no problem beyond the 20th is
\* read; and finish_practice runs at the moment current_index reaches 20, and
\* only then.
C16_AsStated ==
    [][(proc = "gui" /\ proc' = "gui") =>
          /\ 0 <= sess'.correct /\ sess'.correct <= sess'.idx /\ sess'.idx <= GoalCorrect
          /\ (pc = "question" /\ exc' = "ValueError") =>
                sess'.idx = sess.idx /\ sess'.correct = sess.correct
          /\ (pc = "question" /\ exc' # "ValueError") => sess'.idx = sess.idx + 1
          /\ exc' # "IndexError"
          /\ pc' = "finish" <=> (sess.idx = GoalCorrect - 1 /\ sess'.idx = GoalCorrect)]_vars

=============================================================================
